---- MODULE Spec2Model ----
(***************************************************************************)
(* Model of the ICMP echo client of src/ICMP/icmp.cpp: the Internet        *)
(* checksum, the Echo Request encoder, the reply validation and the        *)
(* exchange coordinator send_ping running against a raw socket whose       *)
(* receive queue is filled by the network.                                 *)
(* Also the FTP client of src/FTP/ftp_client.cpp against a server that     *)
(* answers each command (login, passive-mode transfers, disconnect, and    *)
(* read_response on the bytes of the control connection), and              *)
(* HTTPClient::request of src/HTTP/http_client.cpp.                        *)
(***************************************************************************)
EXTENDS Integers, Sequences, FiniteSets, TLC

VARIABLES
    host,       \* byte order of the build: "LE" or "BE"
    pc,         \* position of the caller / of send_ping
    calls,      \* number of send_ping invocations so far
    identifier, \* send_ping argument
    sequence,   \* send_ping argument
    packet,     \* bytes built by create_icmp_echo_request (line 120)
    sent,       \* <<value returned by sendto>>, <<>> before the call
    ready,      \* <<value returned by select>>, <<>> before the call
    received,   \* <<value returned by recvfrom>>, <<>> before the call
    buffer,     \* the bytes recvfrom stored (buffer[0 .. received-1])
    from,       \* source address recvfrom stored
    result,     \* the PingResult under construction / returned
    outcome,    \* which return statement of send_ping was taken
    queue,      \* datagrams readable on the raw socket, oldest first
    waited,     \* seconds select has been blocked
    sendtoCalls, selectCalls, recvfromCalls, returns, validations,
                \* system calls and steps of the current invocation
    everReadable, \* a datagram was readable since the request was sent
    closes,     \* number of close(sock) calls; the socket is open while 0
    earlier,    \* sequence numbers of the earlier attempts of a caller that
                \* takes a fresh one per attempt
    stale,      \* datagrams that were already queued when that caller's
                \* current attempt began
    fn, arg, ret, \* harness of the pure functions: stage, inputs, outputs
    client      \* the FTPClient of main and its connections, a record:
                \*   control_socket  descriptor of the control connection or -1
                \*   data_socket     descriptor of the data connection or -1
                \*   passive_mode    set once a data connection was made
                \*   pc        which response the client waits for
                \*   op        the transfer command of the operation under way
                \*   opn       number of operations started
                \*   cmds      commands sent on the control connection in
                \*             this operation
                \*   ctrlIn    replies the server sent, not read yet
                \*   dataPeer  address the data socket was last connected to
                \*   answer    the server's reply to the first command of this
                \*             operation (PASV or USER)
                \*   second    code of the server's reply to the PASS of this
                \*             operation, 0 when there is none
                \*   login     what login returned in this operation
                \*   open      the descriptors that are open
                \*   quits     number of QUIT commands sent
                \*   closeCalls  number of close() calls
                \*   badCloses   close() calls on a descriptor that is not open

fnVars == <<fn, arg, ret>>

callerVars == <<closes, earlier, stale>>

ftpVars == <<client>>

pingVars == <<pc, calls, identifier, sequence, packet, sent, ready, received,
              buffer, from, result, outcome, queue, waited, sendtoCalls,
              selectCalls, recvfromCalls, returns, validations, everReadable,
              callerVars>>

vars == <<host, pc, calls, identifier, sequence, packet, sent, ready, received,
          buffer, from, result, outcome, queue, waited, sendtoCalls,
          selectCalls, recvfromCalls, returns, validations, everReadable,
          callerVars, fnVars, ftpVars>>

---------------------------------------------------------------------------
(* Bounds of the model *)

MaxQueue == 1
MaxCalls == 2
MaxPayload == 2
MaxOps == 3
MaxLen == 5

(* Program constants *)

BUFFER_SIZE == 1500
TIMEOUT_SECONDS == 2
ICMP_ECHO == 8
ICMP_ECHOREPLY == 0
SizeofIcmphdr == 8

Hosts == {"LE", "BE"}

---------------------------------------------------------------------------
(* Byte order *)

Swap16(x) == (x % 256) * 256 + (x \div 256)

\* the value left in host byte order
htonsHostOrder(x) == x

htons(x) == IF host = "LE" THEN Swap16(x) ELSE x

ntohs(x) == IF host = "LE" THEN Swap16(x) ELSE x

\* a uint16_t read from memory at byte offset off (0-based), in host order
LoadU16(mem, off) ==
    IF host = "LE" THEN mem[off + 1] + 256 * mem[off + 2]
                   ELSE 256 * mem[off + 1] + mem[off + 2]

\* the two bytes memcpy writes for a uint16_t value
StoreU16(x) ==
    IF host = "LE" THEN <<x % 256, x \div 256>>
                   ELSE <<x \div 256, x % 256>>

Min(a, b) == IF a < b THEN a ELSE b

---------------------------------------------------------------------------
(* icmp_checksum, lines 38-59 *)

\* lines 43-45: sum += ntohs(words[i]) for i < length / 2. The uint32_t sum
\* cannot wrap below 131074 bytes of input, far above any buffer modelled here.
RECURSIVE SumWords(_, _, _)
SumWords(data, i, sum) ==
    IF i >= Len(data) \div 2 THEN sum
    ELSE SumWords(data, i + 1, sum + ntohs(LoadU16(data, 2 * i)))

\* the odd trailing byte added as the low byte of a last word
AddOddByteLow(data, sum) ==
    IF Len(data) % 2 = 1 THEN sum + data[Len(data)] ELSE sum

\* lines 48-51: the odd trailing byte is the high byte of a last word
AddOddByte(data, sum) ==
    IF Len(data) % 2 = 1 THEN sum + data[Len(data)] * 256 ELSE sum

\* lines 54-56: while (sum >> 16) sum = (sum & 0xFFFF) + (sum >> 16)
RECURSIVE FoldCarry(_)
FoldCarry(sum) ==
    IF sum \div 65536 # 0 THEN FoldCarry((sum % 65536) + (sum \div 65536)) ELSE sum

\* the sum returned without its complement
NotU16Missing(sum) == sum % 65536

\* static_cast<uint16_t>(~sum): the low 16 bits of the complement
NotU16(sum) == 65535 - (sum % 65536)

\* an early return of 0 for an empty buffer
icmp_checksumEmptyZero(data) ==
    IF Len(data) = 0 THEN 0
    ELSE htons(NotU16(FoldCarry(AddOddByte(data, SumWords(data, 0, 0)))))

\* the byte offsets icmp_checksum reads: words[i] for i < length / 2 (lines
\* 43-45) and bytes[length - 1] when the length is odd (lines 48-51)
ChecksumReads(data) ==
    {k \in 0..(Len(data) - 1) : k < 2 * (Len(data) \div 2)}
        \cup (IF Len(data) % 2 = 1 THEN {Len(data) - 1} ELSE {})

icmp_checksum(data) == htons(NotU16(FoldCarry(AddOddByte(data, SumWords(data, 0, 0)))))

---------------------------------------------------------------------------
(* create_icmp_echo_request, lines 62-87 *)

\* std::to_string of an unsigned value, as ASCII bytes
RECURSIVE to_string(_)
to_string(n) ==
    IF n < 10 THEN <<48 + n>> ELSE to_string(n \div 10) \o <<48 + (n % 10)>>

\* "PING_PAYLOAD_" + std::to_string(sequence), line 117
PingPayload(sq) ==
    <<80, 73, 78, 71, 95, 80, 65, 89, 76, 79, 65, 68, 95>> \o to_string(sq)

\* struct icmphdr as it lies in memory: type, code, checksum, id, sequence
HeaderBytes(type, code, checksum, id, sq) ==
    <<type, code>> \o StoreU16(checksum) \o StoreU16(id) \o StoreU16(sq)

\* memcpy(packet.data() + 2, &checksum, 2), line 84
PutChecksum(pkt, checksum) ==
    [i \in 1..Len(pkt) |->
        IF i = 3 THEN StoreU16(checksum)[1]
        ELSE IF i = 4 THEN StoreU16(checksum)[2]
        ELSE pkt[i]]

\* the packet returned with its checksum field left at zero
create_icmp_echo_requestNoChecksum(id, sq, payload) ==
    HeaderBytes(ICMP_ECHO, 0, 0, htons(id), htons(sq)) \o payload

create_icmp_echo_request(id, sq, payload) ==
    LET header == HeaderBytes(ICMP_ECHO, 0, 0, htons(id), htons(sq))
        pkt    == header \o payload
    IN  PutChecksum(pkt, icmp_checksum(pkt))

---------------------------------------------------------------------------
(* get_ip_header_length, lines 90-94 *)

\* the IHL taken as a byte count
get_ip_header_lengthWords(ip_packet) == ip_packet[1] % 16

\* the version nibble taken for the IHL
get_ip_header_lengthHighNibble(ip_packet) == (ip_packet[1] \div 16) * 4

get_ip_header_length(ip_packet) == (ip_packet[1] % 16) * 4

---------------------------------------------------------------------------
(* validate_icmp_response, lines 97-106 *)

\* the struct icmphdr that reinterpret_cast reads at byte offset off
IcmpHdrAt(mem, off) ==
    [type     |-> mem[off + 1],
     code     |-> mem[off + 2],
     checksum |-> LoadU16(mem, off + 2),
     id       |-> LoadU16(mem, off + 4),
     sequence |-> LoadU16(mem, off + 6)]

\* the code field is not compared
validate_icmp_responseNoCode(icmp_hdr, expected_id, expected_seq) ==
    IF icmp_hdr.type # ICMP_ECHOREPLY THEN FALSE
    ELSE ntohs(icmp_hdr.id) = expected_id /\ ntohs(icmp_hdr.sequence) = expected_seq

\* the type field is not compared
validate_icmp_responseAnyType(icmp_hdr, expected_id, expected_seq) ==
    IF icmp_hdr.code # 0 THEN FALSE
    ELSE ntohs(icmp_hdr.id) = expected_id /\ ntohs(icmp_hdr.sequence) = expected_seq

\* the sequence field is not compared
validate_icmp_responseNoSeq(icmp_hdr, expected_id, expected_seq) ==
    IF icmp_hdr.type # ICMP_ECHOREPLY \/ icmp_hdr.code # 0 THEN FALSE
    ELSE ntohs(icmp_hdr.id) = expected_id

validate_icmp_response(icmp_hdr, expected_id, expected_seq) ==
    IF icmp_hdr.type # ICMP_ECHOREPLY \/ icmp_hdr.code # 0 THEN FALSE
    ELSE ntohs(icmp_hdr.id) = expected_id /\ ntohs(icmp_hdr.sequence) = expected_seq

---------------------------------------------------------------------------
(* The network: datagrams an IPv4 raw ICMP socket can hand to recvfrom *)

\* first byte and length: IHL 0 with a bare ICMP header; 0x45 (version 4,
\* IHL 5) one byte short, with an empty payload and with 14 bytes of payload
Shapes == {<<0, 8>>, <<69, 27>>, <<69, 28>>, <<69, 42>>}
Ids == {777, 1234}
Seqs == {5, 6}
Sources == {"8.8.8.8"}
StackBytes == {0, 255}           \* what an unwritten byte of buffer may hold

\* the ICMP headers on the wire: an Echo Reply to (777, 5) and every change
\* of one of its fields
WireHeaders ==
    {[type |-> 0, code |-> 0, id |-> 777, sequence |-> 5],
     [type |-> 0, code |-> 0, id |-> 777, sequence |-> 6],
     [type |-> 0, code |-> 0, id |-> 1234, sequence |-> 5],
     [type |-> 0, code |-> 1, id |-> 777, sequence |-> 5],
     [type |-> 8, code |-> 0, id |-> 777, sequence |-> 5]}

\* the bytes of a datagram: first byte b0, a TTL of 64 at offset 8, the ICMP
\* header h (network byte order, checksum bytes ck) at offset 4 * IHL, and
\* 0xAA elsewhere
DatagramBytes(b0, len, h, ck) ==
    LET off == 4 * (b0 % 16)
        hb  == <<h.type, h.code, ck, ck, h.id \div 256, h.id % 256,
                 h.sequence \div 256, h.sequence % 256>>
    IN  [i \in 1..len |->
            IF i - 1 >= off /\ i - 1 < off + 8 THEN hb[i - off]
            ELSE IF i = 1 THEN b0
            ELSE IF i = 9 THEN 64
            ELSE 170]

Datagrams ==
    {[src |-> a, data |-> DatagramBytes(sh[1], sh[2], h, 0)] :
        a \in Sources, sh \in Shapes, h \in WireHeaders}

---------------------------------------------------------------------------
(* send_ping, lines 109-191, and its caller *)

\* PingResult result; without the initialiser: the fields hold what the stack held
EmptyResultUninitialised ==
    [success |-> FALSE, rtt_ms |-> 0, from_addr |-> "", bytes_received |-> 255,
     ttl |-> 255, sequence |-> 0, identifier |-> 0]

\* PingResult result{}
EmptyResult ==
    [success |-> FALSE, rtt_ms |-> 0, from_addr |-> "", bytes_received |-> 0,
     ttl |-> 0, sequence |-> 0, identifier |-> 0]

InFlight == {"select", "wait", "recvfrom", "process"}

\* whether a datagram has been readable since the request was sent
Readable(pcNext, queueNext, before) ==
    IF pcNext \in InFlight THEN before \/ queueNext # <<>> ELSE before

\* a return statement of send_ping; the locals buffer and from end with it
Return(how, res) ==
    /\ pc' = "returned"
    /\ outcome' = how
    /\ result' = res
    /\ returns' = returns + 1
    /\ buffer' = <<>>
    /\ from' = ""

\* lines 111-120: the caller invokes send_ping, which initialises the result
\* and builds the packet
Invoke(sq) ==
    /\ pc \in {"caller", "returned"}
    /\ closes = 0
    /\ calls < MaxCalls
    /\ calls' = calls + 1
    /\ sequence' = sq
    /\ result' = [EmptyResult EXCEPT !.sequence = sq, !.identifier = identifier]
    /\ packet' = create_icmp_echo_request(identifier, sq, PingPayload(sq))
    /\ pc' = "sendto"
    /\ outcome' = "none"
    /\ sent' = <<>> /\ ready' = <<>> /\ received' = <<>>
    /\ buffer' = <<>> /\ from' = ""
    /\ waited' = 0
    /\ sendtoCalls' = 0 /\ selectCalls' = 0 /\ recvfromCalls' = 0
    /\ returns' = 0 /\ validations' = 0
    /\ everReadable' = FALSE
    /\ UNCHANGED <<host, identifier, queue, fnVars, ftpVars>>

\* send_ping invoked by a caller that keeps no record of its attempts
Call(sq) ==
    /\ Invoke(sq)
    /\ UNCHANGED callerVars

\* the sequence numbers a caller has used so far
Used == IF calls = 0 THEN {} ELSE earlier \cup {sequence}

\* send_ping invoked again on the same socket with a sequence number not used
\* before; what earlier attempts left unread is still queued
FreshCall(sq) ==
    /\ sq \notin Used
    /\ Invoke(sq)
    /\ earlier' = Used
    /\ stale' = Len(queue)
    /\ UNCHANGED closes

\* only a negative count is taken as a failure
SendFailedOnlyNegative(n) == n < 0

\* line 125: sent <= 0
SendFailed(n) == n <= 0

\* lines 123-128: sendto, and the return when it sent nothing
Sendto(n) ==
    /\ pc = "sendto"
    /\ sent' = <<n>>
    /\ sendtoCalls' = sendtoCalls + 1
    /\ IF SendFailed(n)
       THEN /\ Return("send_failed", result)
            /\ UNCHANGED everReadable
       ELSE /\ pc' = "select"
            /\ everReadable' = Readable("select", queue, everReadable)
            /\ UNCHANGED <<outcome, result, returns, buffer, from>>
    /\ UNCHANGED <<host, calls, identifier, sequence, packet, ready, received,
                   queue, waited, selectCalls, recvfromCalls, validations,
                   callerVars, fnVars, ftpVars>>

\* lines 131-136: select is entered with a timeout of TIMEOUT_SECONDS
SelectCall ==
    /\ pc = "select"
    /\ pc' = "wait"
    /\ waited' = 0
    /\ selectCalls' = selectCalls + 1
    /\ UNCHANGED <<host, calls, identifier, sequence, packet, sent, ready,
                   received, buffer, from, result, outcome, queue, sendtoCalls,
                   recvfromCalls, returns, validations, everReadable,
                   callerVars, fnVars, ftpVars>>

\* a second passes while select is blocked on an unreadable socket
Tick ==
    /\ pc = "wait"
    /\ queue = <<>>
    /\ waited < TIMEOUT_SECONDS
    /\ waited' = waited + 1
    /\ UNCHANGED <<host, pc, calls, identifier, sequence, packet, sent, ready,
                   received, buffer, from, result, outcome, queue, sendtoCalls,
                   selectCalls, recvfromCalls, returns, validations,
                   everReadable, callerVars, fnVars, ftpVars>>

\* line 136 with ready > 0: the socket is readable
SelectReady ==
    /\ pc = "wait"
    /\ queue # <<>>
    /\ ready' = <<1>>
    /\ pc' = "recvfrom"
    /\ UNCHANGED <<host, calls, identifier, sequence, packet, sent, received,
                   buffer, from, result, outcome, queue, waited, sendtoCalls,
                   selectCalls, recvfromCalls, returns, validations,
                   everReadable, callerVars, fnVars, ftpVars>>

\* select with a null timeout never returns 0
SelectTimeoutNever ==
    /\ FALSE
    /\ UNCHANGED vars

\* the request is sent again when the timeout elapses
SelectTimeoutResend ==
    /\ pc = "wait"
    /\ queue = <<>>
    /\ waited = TIMEOUT_SECONDS
    /\ ready' = <<0>>
    /\ pc' = "sendto"
    /\ UNCHANGED <<host, calls, identifier, sequence, packet, sent, received,
                   buffer, from, result, outcome, queue, waited, sendtoCalls,
                   selectCalls, recvfromCalls, returns, validations,
                   everReadable, callerVars, fnVars, ftpVars>>

\* lines 138-145 with ready = 0: the timeout elapsed
SelectTimeout ==
    /\ pc = "wait"
    /\ queue = <<>>
    /\ waited = TIMEOUT_SECONDS
    /\ ready' = <<0>>
    /\ Return("timeout", result)
    /\ UNCHANGED <<host, calls, identifier, sequence, packet, sent, received,
                   queue, waited, sendtoCalls, selectCalls, recvfromCalls,
                   validations, everReadable, callerVars, fnVars, ftpVars>>

\* lines 138-145 with ready < 0: select failed
SelectError ==
    /\ pc = "wait"
    /\ ready' = <<-1>>
    /\ Return("select_error", result)
    /\ UNCHANGED <<host, calls, identifier, sequence, packet, sent, received,
                   queue, waited, sendtoCalls, selectCalls, recvfromCalls,
                   validations, everReadable, callerVars, fnVars, ftpVars>>

\* the socket is closed on the error path of recvfrom
RecvfromErrorClosing(n) ==
    /\ pc = "recvfrom"
    /\ received' = <<n>>
    /\ recvfromCalls' = recvfromCalls + 1
    /\ Return("recv_failed", result)
    /\ closes' = closes + 1
    /\ UNCHANGED <<host, calls, identifier, sequence, packet, sent, ready,
                   queue, waited, sendtoCalls, selectCalls, validations,
                   everReadable, earlier, stale, fnVars, ftpVars>>

\* lines 152-157 with received <= 0
RecvfromError(n) ==
    /\ pc = "recvfrom"
    /\ received' = <<n>>
    /\ recvfromCalls' = recvfromCalls + 1
    /\ Return("recv_failed", result)
    /\ UNCHANGED <<host, calls, identifier, sequence, packet, sent, ready,
                   queue, waited, sendtoCalls, selectCalls, validations,
                   everReadable, callerVars, fnVars, ftpVars>>

\* lines 152-159: recvfrom takes the oldest datagram, at most BUFFER_SIZE bytes
Recvfrom ==
    /\ pc = "recvfrom"
    /\ queue # <<>>
    /\ recvfromCalls' = recvfromCalls + 1
    /\ buffer' = SubSeq(Head(queue).data, 1, Min(Len(Head(queue).data), BUFFER_SIZE))
    /\ received' = <<Len(buffer')>>
    /\ from' = Head(queue).src
    /\ queue' = Tail(queue)
    /\ pc' = "process"
    /\ UNCHANGED <<host, calls, identifier, sequence, packet, sent, ready,
                   waited, result, outcome, sendtoCalls, selectCalls, returns,
                   validations, everReadable, callerVars, fnVars, ftpVars>>

\* line 164: received < ip_header_len + sizeof(icmphdr)
TooShort(n, ip_header_len) == n < ip_header_len + SizeofIcmphdr

\* line 188: buffer[8]; a byte recvfrom did not write holds anything
TtlRead(buf) == IF Len(buf) > 8 THEN {buf[9]} ELSE StackBytes

\* lines 179-188: the result of the success path
FilledResult(res, rtt, addr, n, ip_header_len, ttl) ==
    [res EXCEPT !.success = TRUE,
                !.rtt_ms = rtt,
                !.from_addr = addr,
                !.bytes_received = n - ip_header_len - SizeofIcmphdr,
                !.ttl = ttl]

\* a datagram that fails validation is dropped and select is entered again
ProcessRetry ==
    /\ pc = "process"
    /\ LET ip_header_len == get_ip_header_length(buffer)
       IN  IF TooShort(received[1], ip_header_len)
           THEN /\ Return("too_short", result)
                /\ UNCHANGED validations
           ELSE /\ validations' = validations + 1
                /\ IF ~validate_icmp_response(IcmpHdrAt(buffer, ip_header_len),
                                              identifier, sequence)
                   THEN /\ pc' = "wait"
                        /\ UNCHANGED <<outcome, result, returns, buffer, from>>
                   ELSE \E ttl \in TtlRead(buffer) :
                            Return("ok", FilledResult(result, waited, from,
                                                      received[1], ip_header_len,
                                                      ttl))
    /\ UNCHANGED <<host, calls, identifier, sequence, packet, sent, ready,
                   received, queue, waited, sendtoCalls, selectCalls,
                   recvfromCalls, everReadable, callerVars, fnVars, ftpVars>>

\* the ICMP checksum of the received message is verified before validation
ProcessVerifying ==
    /\ pc = "process"
    /\ LET ip_header_len == get_ip_header_length(buffer)
       IN  IF TooShort(received[1], ip_header_len)
           THEN /\ Return("too_short", result)
                /\ UNCHANGED validations
           ELSE /\ validations' = validations + 1
                /\ IF \/ icmp_checksum(SubSeq(buffer, ip_header_len + 1,
                                              Len(buffer))) # 0
                      \/ ~validate_icmp_response(IcmpHdrAt(buffer, ip_header_len),
                                                 identifier, sequence)
                   THEN Return("invalid", result)
                   ELSE \E ttl \in TtlRead(buffer) :
                            Return("ok", FilledResult(result, waited, from,
                                                      received[1], ip_header_len,
                                                      ttl))
    /\ UNCHANGED <<host, calls, identifier, sequence, packet, sent, ready,
                   received, queue, waited, sendtoCalls, selectCalls,
                   recvfromCalls, everReadable, callerVars, fnVars, ftpVars>>

\* lines 162-190: the length check, the validation and the result
Process ==
    /\ pc = "process"
    /\ LET ip_header_len == get_ip_header_length(buffer)
       IN  IF TooShort(received[1], ip_header_len)
           THEN /\ Return("too_short", result)
                /\ UNCHANGED validations
           ELSE /\ validations' = validations + 1
                /\ IF ~validate_icmp_response(IcmpHdrAt(buffer, ip_header_len),
                                              identifier, sequence)
                   THEN Return("invalid", result)
                   ELSE \E ttl \in TtlRead(buffer) :
                            Return("ok", FilledResult(result, waited, from,
                                                      received[1], ip_header_len,
                                                      ttl))
    /\ UNCHANGED <<host, calls, identifier, sequence, packet, sent, ready,
                   received, queue, waited, sendtoCalls, selectCalls,
                   recvfromCalls, everReadable, callerVars, fnVars, ftpVars>>

\* the network puts a datagram on the socket's receive queue
Deliver(d) ==
    /\ closes = 0
    /\ Len(queue) < MaxQueue
    /\ queue' = Append(queue, d)
    /\ everReadable' = Readable(pc, queue', everReadable)
    /\ UNCHANGED <<host, pc, calls, identifier, sequence, packet, sent, ready,
                   received, buffer, from, result, outcome, waited, sendtoCalls,
                   selectCalls, recvfromCalls, returns, validations, callerVars,
                   fnVars, ftpVars>>

\* main, line 238: cleanup() closes the socket once send_ping has returned and
\* main returns; what was queued on the socket is discarded
Cleanup ==
    /\ pc = "returned"
    /\ closes = 0
    /\ closes' = closes + 1
    /\ queue' = <<>>
    /\ UNCHANGED <<host, pc, calls, identifier, sequence, packet, sent, ready,
                   received, buffer, from, result, outcome, waited, sendtoCalls,
                   selectCalls, recvfromCalls, returns, validations,
                   everReadable, earlier, stale, fnVars, ftpVars>>

\* the steps send_ping takes when nothing fails in the system calls it waits in
ProgressStep ==
    \/ \E n \in {-1, 0, Len(packet)} : Sendto(n)
    \/ SelectCall
    \/ Tick
    \/ SelectReady
    \/ SelectTimeout
    \/ Recvfrom
    \/ Process

\* select or recvfrom fails
FaultStep ==
    \/ SelectError
    \/ \E n \in {-1, 0} : RecvfromError(n)

\* no address
NoAddr == [ip |-> <<>>, port |-> 0]

\* FTPClient(): control_socket(-1), data_socket(-1), passive_mode(false),
\* src/FTP/ftp_client.cpp line 55
FtpInit ==
    client = [control_socket |-> -1, data_socket |-> -1,
              passive_mode |-> FALSE, pc |-> "start", op |-> "none", opn |-> 0,
              cmds |-> <<>>, ctrlIn |-> <<>>, dataPeer |-> NoAddr,
              answer |-> [code |-> 0, addr |-> NoAddr],
              second |-> 0, login |-> "none", open |-> {}, quits |-> 0,
              closeCalls |-> 0, badCloses |-> 0]

PingInit ==
    /\ pc = "caller"
    /\ calls = 0
    /\ sequence = 0
    /\ packet = <<>>
    /\ sent = <<>> /\ ready = <<>> /\ received = <<>>
    /\ buffer = <<>>
    /\ from = ""
    /\ result = EmptyResult
    /\ outcome = "none"
    /\ queue = <<>>
    /\ waited = 0
    /\ sendtoCalls = 0 /\ selectCalls = 0 /\ recvfromCalls = 0
    /\ returns = 0 /\ validations = 0
    /\ everReadable = FALSE
    /\ closes = 0
    /\ earlier = {}
    /\ stale = 0

Init ==
    /\ host \in Hosts
    /\ identifier \in Ids
    /\ PingInit
    /\ FtpInit
    /\ fn = "none" /\ arg = <<>> /\ ret = <<>>

Next ==
    \/ \E sq \in Seqs : Call(sq)
    \/ ProgressStep
    \/ FaultStep
    \/ \E d \in Datagrams : Deliver(d)
    \/ Cleanup

Spec == Init /\ [][Next]_vars

\* the process keeps running and time passes: a step send_ping can take is
\* eventually taken; nothing obliges select or recvfrom to fail
FairSpec == Spec /\ WF_vars(ProgressStep)

---------------------------------------------------------------------------
(* Properties of send_ping *)

Positive(rv) == rv # <<>> /\ rv[1] > 0

\* the ICMP header of a datagram as the wire defines it: big-endian fields at
\* byte offset off
WireType(d, off) == d[off + 1]
WireCode(d, off) == d[off + 2]
WireId(d, off)   == d[off + 5] * 256 + d[off + 6]
WireSeq(d, off)  == d[off + 7] * 256 + d[off + 8]
Ihl(d)           == d[1] % 16

\* the datagram in buffer is long enough and is the Echo Reply to (id, sq)
IsEchoReplyTo(d, id, sq) ==
    /\ Len(d) >= 4 * Ihl(d) + 8
    /\ WireType(d, 4 * Ihl(d)) = 0
    /\ WireCode(d, 4 * Ihl(d)) = 0
    /\ WireId(d, 4 * Ihl(d)) = id
    /\ WireSeq(d, 4 * Ihl(d)) = sq

Returning == pc # "returned" /\ pc' = "returned"

\* C1: send_ping returns success=true exactly when, in this invocation, sendto,
\* select and recvfrom each returned a positive value, the datagram holds at
\* least 4*IHL + 8 bytes and its ICMP header at offset 4*IHL is type 0, code 0
\* with the identifier and sequence that were sent; until it returns, and on
\* every other return, success is false.
C1_SuccessIff ==
    [][/\ pc' # "returned" => ~result'.success
       /\ Returning =>
            (result'.success <=>
                /\ Positive(sent') /\ Positive(ready') /\ Positive(received')
                /\ IsEchoReplyTo(buffer, identifier, sequence))]_vars

C1_Witness ==
    /\ pc = "returned" /\ result.success
    /\ Positive(sent) /\ Positive(ready) /\ Positive(received)

FailureOutcomes ==
    {"send_failed", "timeout", "select_error", "recv_failed", "too_short", "invalid"}

\* C2 as stated: on every failure path the returned result has success=false
\* and every other field zero or empty, sequence and identifier included.
C2_AllFieldsZeroOnFailure ==
    (pc = "returned" /\ outcome \in FailureOutcomes) =>
        /\ ~result.success
        /\ result.rtt_ms = 0 /\ result.from_addr = "" /\ result.bytes_received = 0
        /\ result.ttl = 0 /\ result.sequence = 0 /\ result.identifier = 0

\* C2 amended: on every failure path the returned result has success=false,
\* rtt_ms=0, an empty source address, bytes_received=0 and ttl=0, while sequence
\* and identifier hold the caller's values (lines 112-113 set them before
\* sendto); the other fields are populated only on the success path.
C2_FailureResult ==
    /\ (pc = "returned" /\ outcome \in FailureOutcomes) =>
            /\ ~result.success
            /\ result.rtt_ms = 0 /\ result.from_addr = ""
            /\ result.bytes_received = 0 /\ result.ttl = 0
            /\ result.sequence = sequence /\ result.identifier = identifier
    /\ (result.from_addr # "" \/ result.bytes_received # 0 \/ result.ttl # 0
            \/ result.rtt_ms # 0) => outcome = "ok"

C2_Witness ==
    /\ pc = "returned" /\ outcome = "invalid"
    /\ result.sequence = 5 /\ result.identifier = 777 /\ result.ttl = 0

\* C3: one invocation performs at most one sendto and at most one recvfrom; a
\* datagram that fails validation ends the attempt with success=false and no
\* second receive, also when the matching reply is readable afterwards.
C3_OneSendOneReceive ==
    /\ sendtoCalls <= 1
    /\ recvfromCalls <= 1
    /\ outcome = "invalid" =>
            pc = "returned" /\ ~result.success /\ recvfromCalls = 1

C3_Witness ==
    /\ pc = "returned" /\ outcome = "invalid" /\ recvfromCalls = 1
    /\ queue # <<>>
    /\ IsEchoReplyTo(Head(queue).data, identifier, sequence)

\* the state of the attempt, from the position in send_ping and the return taken
AttemptState ==
    CASE pc = "caller"   -> "NoAttempt"
      [] pc = "sendto"   -> "Idle"
      [] pc = "select"   -> "Sent"
      [] pc = "wait"     -> "AwaitingReply"
      [] pc = "recvfrom" -> "AwaitingReply"
      [] pc = "process"  -> "Received"
      [] pc = "returned" ->
            CASE outcome = "send_failed"  -> "SendFailed"
              [] outcome = "timeout"      -> "TimedOut"
              [] outcome = "select_error" -> "WaitFailed"
              [] outcome = "recv_failed"  -> "ReceiveFailed"
              [] outcome = "too_short"    -> "Rejected"
              [] outcome = "invalid"      -> "Rejected"
              [] outcome = "ok"           -> "Validated"

SpecTransitions ==
    {<<"Idle", "Sent">>, <<"Sent", "AwaitingReply">>,
     <<"AwaitingReply", "TimedOut">>, <<"AwaitingReply", "Received">>,
     <<"Received", "Validated">>, <<"Received", "Rejected">>}

FailureTransitions ==
    {<<"Idle", "SendFailed">>, <<"AwaitingReply", "WaitFailed">>,
     <<"AwaitingReply", "ReceiveFailed">>}

\* C4 as stated: within an invocation the attempt moves only along
\* Idle -> Sent -> AwaitingReply -> {TimedOut | Received},
\* Received -> {Validated | Rejected}; it ends in TimedOut, Validated or
\* Rejected, and the result is returned exactly once.
C4_StateMachineAsStated ==
    [][/\ (calls' = calls /\ AttemptState' # AttemptState) =>
                <<AttemptState, AttemptState'>> \in SpecTransitions
       /\ pc' = "returned" =>
                /\ AttemptState' \in {"TimedOut", "Validated", "Rejected"}
                /\ returns' = 1]_vars

\* C4 amended: the attempt moves only along the transitions of the state
\* machine and three failure exits, Idle -> SendFailed (sendto sent nothing),
\* AwaitingReply -> WaitFailed (select failed) and AwaitingReply ->
\* ReceiveFailed (recvfrom failed); every attempt ends in TimedOut, Validated,
\* Rejected or one of these three, Validated exactly on success, and the result
\* is returned exactly once.
C4_StateMachine ==
    [][/\ (calls' = calls /\ AttemptState' # AttemptState) =>
                <<AttemptState, AttemptState'>> \in
                    SpecTransitions \cup FailureTransitions
       /\ pc' = "returned" =>
                /\ AttemptState' \in {"TimedOut", "Validated", "Rejected",
                                      "SendFailed", "WaitFailed", "ReceiveFailed"}
                /\ (AttemptState' = "Validated" <=> result'.success)
                /\ returns' = 1
       /\ pc' \notin {"caller", "returned"} => returns' = 0]_vars

C4_Witness ==
    /\ pc = "returned" /\ returns = 1 /\ calls = 2
    /\ AttemptState = "SendFailed"

\* C5: when no datagram becomes readable after the request is sent, send_ping
\* eventually returns, with success=false and without having called recvfrom.
C5_TimeoutReturns ==
    (pc = "select") ~>
        (everReadable \/ (pc = "returned" /\ ~result.success /\ recvfromCalls = 0))

C5_Witness ==
    /\ pc = "returned" /\ outcome = "timeout" /\ ~everReadable
    /\ ~result.success /\ recvfromCalls = 0 /\ waited = TIMEOUT_SECONDS

\* C6: when sendto returns zero or a negative count, send_ping returns
\* success=false at once: no select, no recvfrom, no second sendto.
C6_SendFailureReturns ==
    (sent # <<>> /\ sent[1] <= 0) =>
        /\ pc = "returned" /\ ~result.success
        /\ sendtoCalls = 1 /\ selectCalls = 0 /\ recvfromCalls = 0

C6_Witness ==
    pc = "returned" /\ sent = <<0>> /\ outcome = "send_failed"

\* C7: a received datagram shorter than 4*IHL + 8 bytes is rejected with
\* success=false and its ICMP header region is never passed to validation.
C7_TruncatedRejected ==
    [][(pc = "process" /\ pc' # "process"
            /\ Len(buffer) < 4 * Ihl(buffer) + 8) =>
            /\ pc' = "returned" /\ ~result'.success
            /\ validations' = 0]_vars

C7_Witness ==
    /\ pc = "returned" /\ outcome = "too_short" /\ received = <<27>>
    /\ validations = 0 /\ ~result.success

\* C8: on the success path ttl is byte 8 of the received datagram,
\* bytes_received is the received length minus 4*IHL minus 8, and sequence and
\* identifier are the caller's values.
C8_SuccessFields ==
    [][(pc = "process" /\ result'.success) =>
            /\ Len(buffer) > 8
            /\ result'.ttl = buffer[9]
            /\ result'.bytes_received = Len(buffer) - 4 * Ihl(buffer) - 8
            /\ result'.sequence = sequence
            /\ result'.identifier = identifier]_vars

\* C16: send_ping never closes the socket it is given: on every return path
\* the socket is still open, and it is closed exactly once, by the caller, after
\* send_ping has returned.
C16_SocketOwnership ==
    [][/\ closes' # closes =>
            /\ pc = "returned" /\ pc' = "returned"
            /\ closes = 0 /\ closes' = 1
       /\ Returning => closes' = 0
       /\ pc' \in InFlight \cup {"sendto"} => closes' = 0]_vars

C16_Witness ==
    /\ pc = "returned" /\ closes = 1 /\ returns = 1
    /\ outcome = "recv_failed"

---------------------------------------------------------------------------
(* send_ping called repeatedly on one socket, a fresh sequence number per call *)

ReuseNext ==
    \/ \E sq \in Seqs : FreshCall(sq)
    \/ ProgressStep
    \/ FaultStep
    \/ \E d \in Datagrams : Deliver(d)
    \/ Cleanup

ReuseSpec == Init /\ [][ReuseNext]_vars

\* C17: with the same identifier and a fresh sequence number per call, a reply
\* to an earlier attempt that a later attempt takes from the socket is never
\* accepted as success by the later attempt.
C17_StaleReplyRejected ==
    [][(/\ pc = "process" /\ pc' = "returned"
        /\ \E s \in earlier : IsEchoReplyTo(buffer, identifier, s))
            => ~result'.success]_vars

\* the second attempt has taken from the socket the reply to the first, which
\* was queued before the second attempt began
C17_Witness ==
    /\ pc = "process" /\ calls = 2 /\ recvfromCalls = 1
    /\ earlier = {5} /\ sequence = 6 /\ stale = 1
    /\ IsEchoReplyTo(buffer, identifier, 5)

\* the first datagram the network delivered during the current attempt, seen
\* when a datagram is being processed: the datagrams queued before the attempt
\* began are read first
FirstArrival ==
    IF stale = 0 THEN <<buffer>>
    ELSE IF Len(queue) >= stale THEN <<queue[stale].data>>
    ELSE <<>>

\* C18: an attempt's success is the same whatever earlier attempts left on the
\* socket: it is what the attempt returns when the socket holds nothing at its
\* start, that is, success exactly when the first datagram the network delivers
\* during the attempt is the Echo Reply to its (identifier, sequence).
C18_Stateless ==
    [][(pc = "process" /\ pc' = "returned" /\ calls >= 2) =>
            (result'.success <=>
                /\ FirstArrival # <<>>
                /\ IsEchoReplyTo(FirstArrival[1], identifier, sequence))]_vars

---------------------------------------------------------------------------
(* icmp_checksum applied to byte buffers, and the checksum written back *)

SampleBytes == {0, 1, 128, 255}

RECURSIVE ByteStrings(_)
ByteStrings(n) ==
    IF n = 0 THEN {<<>>}
    ELSE LET shorter == ByteStrings(n - 1)
         IN  shorter \cup {Append(b, x) : b \in {t \in shorter : Len(t) = n - 1},
                                          x \in SampleBytes}

ChecksumInit ==
    /\ host \in Hosts
    /\ identifier = 0
    /\ PingInit
    /\ FtpInit
    /\ fn = "checksum"
    /\ \E b \in ByteStrings(MaxLen) : arg = [data |-> b, orig |-> b]
    /\ ret = <<>>

\* c = icmp_checksum(B)
ChecksumCompute ==
    /\ fn = "checksum"
    /\ ret' = <<icmp_checksum(arg.data)>>
    /\ fn' = "computed"
    /\ UNCHANGED <<host, pingVars, ftpVars, arg>>

\* B' = B with bytes 2-3 replaced by c, as line 84 writes it
ChecksumStore ==
    /\ fn = "computed"
    /\ Len(arg.data) >= 4
    /\ arg' = [arg EXCEPT !.data = PutChecksum(arg.data, ret[1])]
    /\ fn' = "stored"
    /\ UNCHANGED <<host, pingVars, ftpVars, ret>>

\* icmp_checksum(B')
ChecksumVerify ==
    /\ fn = "stored"
    /\ ret' = <<ret[1], icmp_checksum(arg.data)>>
    /\ fn' = "verified"
    /\ UNCHANGED <<host, pingVars, ftpVars, arg>>

ChecksumNext ==
    \/ ChecksumCompute
    \/ ChecksumStore
    \/ ChecksumVerify

ChecksumSpec == ChecksumInit /\ [][ChecksumNext]_vars

\* C10 as stated: for any buffer B of at least 4 bytes, icmp_checksum of B with
\* its bytes 2-3 replaced by icmp_checksum(B) is 0.
C10_SelfVerifyAnyBuffer ==
    fn = "verified" => ret[2] = 0

\* C10 amended: for any buffer B of at least 4 bytes whose checksum bytes
\* (offsets 2-3) are zero, icmp_checksum of B with those bytes replaced by
\* icmp_checksum(B) is 0.
C10_SelfVerify ==
    (fn = "verified" /\ arg.orig[3] = 0 /\ arg.orig[4] = 0) => ret[2] = 0

C10_Witness ==
    /\ fn = "verified" /\ Len(arg.orig) = 5
    /\ arg.orig = <<255, 255, 0, 0, 128>>
    /\ arg.data = <<255, 255, 127, 255, 128>>
    /\ ret[2] = 0

\* RFC 1071: the big-endian 16-bit words of a buffer, an odd trailing byte
\* being the high byte of a last word whose low byte is zero
RECURSIVE Rfc1071Sum(_)
Rfc1071Sum(data) ==
    IF Len(data) = 0 THEN 0
    ELSE IF Len(data) = 1 THEN data[1] * 256
    ELSE data[1] * 256 + data[2] + Rfc1071Sum(SubSeq(data, 3, Len(data)))

\* the end-around-carry fold of a sum, as a residue: 0 stays 0, any other sum
\* folds to its residue modulo 0xFFFF taken in 1..0xFFFF
Rfc1071Fold(sum) == IF sum = 0 THEN 0 ELSE ((sum - 1) % 65535) + 1

Rfc1071Checksum(data) == 65535 - Rfc1071Fold(Rfc1071Sum(data))

\* C11: for every buffer, even or odd in length, icmp_checksum is the RFC 1071
\* checksum: the complement of the folded sum of the big-endian words, the odd
\* trailing byte padded with a zero low byte; the value it returns lies in
\* memory in network byte order.
C11_MatchesRfc1071 ==
    fn = "computed" =>
        StoreU16(ret[1]) = <<Rfc1071Checksum(arg.orig) \div 256,
                             Rfc1071Checksum(arg.orig) % 256>>

C11_Witness ==
    /\ fn = "computed" /\ host = "LE"
    /\ arg.orig = <<255, 255, 1, 0, 128>>
    /\ StoreU16(ret[1]) = <<126, 255>>

\* C12: icmp_checksum of the empty buffer reads no byte and returns 0xFFFF, the
\* complement of 0.
C12_EmptyBuffer ==
    (fn = "computed" /\ Len(arg.orig) = 0) =>
        /\ ret[1] = 65535
        /\ ChecksumReads(arg.orig) = {}

C12_Witness ==
    fn = "computed" /\ arg.orig = <<>> /\ ret = <<65535>>

---------------------------------------------------------------------------
(* create_icmp_echo_request applied to identifiers, sequences and payloads *)

EncodeValues == {0, 1, 255, 256, 777, 65535}

\* payloads up to MaxPayload bytes, and the payload send_ping builds (line 117)
EncodePayloads == ByteStrings(MaxPayload) \cup {PingPayload(1)}

EncodeInit ==
    /\ host \in Hosts
    /\ identifier = 0
    /\ PingInit
    /\ FtpInit
    /\ fn = "encode"
    /\ \E id \in EncodeValues, sq \in EncodeValues, p \in EncodePayloads :
            arg = [identifier |-> id, sequence |-> sq, payload |-> p]
    /\ ret = <<>>

\* packet = create_icmp_echo_request(identifier, sequence, payload)
Encode ==
    /\ fn = "encode"
    /\ ret' = <<create_icmp_echo_request(arg.identifier, arg.sequence,
                                         arg.payload)>>
    /\ fn' = "encoded"
    /\ UNCHANGED <<host, pingVars, ftpVars, arg>>

\* icmp_checksum(packet.data(), packet.size()) over the returned packet
EncodeVerify ==
    /\ fn = "encoded"
    /\ ret' = <<ret[1], icmp_checksum(ret[1])>>
    /\ fn' = "reverified"
    /\ UNCHANGED <<host, pingVars, ftpVars, arg>>

EncodeNext ==
    \/ Encode
    \/ EncodeVerify

EncodeSpec == EncodeInit /\ [][EncodeNext]_vars

Encoded == fn \in {"encoded", "reverified"}

\* C13: bytes 4-5 of the packet create_icmp_echo_request returns, read
\* big-endian, are the identifier and bytes 6-7 are the sequence, for every
\* identifier and sequence in 0..65535 and every payload.
C13_EncodeRoundTrip ==
    Encoded =>
        /\ Len(ret[1]) >= 8
        /\ ret[1][5] * 256 + ret[1][6] = arg.identifier
        /\ ret[1][7] * 256 + ret[1][8] = arg.sequence

C13_Witness ==
    /\ Encoded /\ host = "LE"
    /\ arg.identifier = 777 /\ arg.sequence = 256
    /\ SubSeq(ret[1], 5, 8) = <<3, 9, 1, 0>>

\* C14: the packet has 8 + |payload| bytes, byte 0 is 8, byte 1 is 0, bytes 8
\* onward are the payload, bytes 2-3 hold icmp_checksum of the same packet with
\* bytes 2-3 zero, and icmp_checksum over the returned packet is 0, also with
\* an empty payload.
C14_PacketLayout ==
    /\ Encoded =>
        /\ Len(ret[1]) = 8 + Len(arg.payload)
        /\ ret[1][1] = 8
        /\ ret[1][2] = 0
        /\ SubSeq(ret[1], 9, Len(ret[1])) = arg.payload
        /\ <<ret[1][3], ret[1][4]>> =
                StoreU16(icmp_checksum([ret[1] EXCEPT ![3] = 0, ![4] = 0]))
    /\ fn = "reverified" => ret[2] = 0

C14_Witness ==
    /\ fn = "reverified" /\ arg.payload = <<>>
    /\ arg.identifier = 777 /\ arg.sequence = 1
    /\ ret = <<<<8, 0, 244, 245, 3, 9, 0, 1>>, 0>>

---------------------------------------------------------------------------
(* get_ip_header_length applied to every first byte *)

IhlInit ==
    /\ host \in Hosts
    /\ identifier = 0
    /\ PingInit
    /\ FtpInit
    /\ fn = "ihl"
    /\ \E b \in 0..255 : arg = [ip_packet |-> <<b>>]
    /\ ret = <<>>

IhlCompute ==
    /\ fn = "ihl"
    /\ ret' = <<get_ip_header_length(arg.ip_packet)>>
    /\ fn' = "ihl_done"
    /\ UNCHANGED <<host, pingVars, ftpVars, arg>>

IhlNext == IhlCompute

IhlSpec == IhlInit /\ [][IhlNext]_vars

\* the low four bits of a byte, by subtraction of its high four bits
LowNibble(b) == b - 16 * (b \div 16)

\* C15: get_ip_header_length returns 4 times the low nibble of the first byte,
\* for every first byte 0..255: a multiple of 4 in 0..60 that does not depend
\* on the high (version) nibble; 0x45 gives 20.
C15_HeaderLength ==
    fn = "ihl_done" =>
        /\ ret[1] = 4 * LowNibble(arg.ip_packet[1])
        /\ ret[1] \in {4 * k : k \in 0..15}
        /\ \A v \in 0..15 :
                get_ip_header_length(<<16 * v + LowNibble(arg.ip_packet[1])>>)
                    = ret[1]
        /\ arg.ip_packet[1] = 69 => ret[1] = 20

C15_Witness ==
    fn = "ihl_done" /\ arg.ip_packet = <<69>> /\ ret = <<20>>

---------------------------------------------------------------------------
(* send_ping receiving datagrams that differ in ICMP checksum and payload *)

\* a datagram with the bytes after its ICMP header replaced by fill
WithPayload(data, fill) ==
    [i \in 1..Len(data) |-> IF i > 4 * Ihl(data) + 8 THEN fill ELSE data[i]]

\* a datagram with the two bytes of its ICMP checksum field replaced by ck
WithChecksum(data, ck) ==
    [i \in 1..Len(data) |->
        IF i = 4 * Ihl(data) + 3 THEN ck[1]
        ELSE IF i = 4 * Ihl(data) + 4 THEN ck[2]
        ELSE data[i]]

\* the checksum a sender computes over the ICMP message of the datagram
RightChecksum(data) ==
    LET c == Rfc1071Checksum(SubSeq(WithChecksum(data, <<0, 0>>),
                                    4 * Ihl(data) + 1, Len(data)))
    IN  <<c \div 256, c % 256>>

\* the datagrams of the network with a payload of 0xAA or 0x00 bytes and a
\* checksum field that is zero, all ones or right
VariedDatagrams ==
    UNION {{[src |-> d.src, data |-> WithChecksum(WithPayload(d.data, f), ck)] :
                ck \in {<<0, 0>>, <<255, 255>>,
                        RightChecksum(WithPayload(d.data, f))}} :
           d \in Datagrams, f \in {170, 0}}

\* a datagram arrives on the socket before send_ping is invoked
Arrive(d) ==
    /\ pc = "caller"
    /\ fn = "none"
    /\ queue' = <<d>>
    /\ fn' = "queued"
    /\ arg' = d
    /\ UNCHANGED <<host, pc, calls, identifier, sequence, packet, sent, ready,
                   received, buffer, from, result, outcome, waited, sendtoCalls,
                   selectCalls, recvfromCalls, returns, validations,
                   everReadable, callerVars, ret, ftpVars>>

\* main, line 224: send_ping is invoked once
OnlyCall(sq) ==
    /\ calls = 0
    /\ Call(sq)

ReceiveNext ==
    \/ \E d \in VariedDatagrams : Arrive(d)
    \/ \E sq \in Seqs : OnlyCall(sq)
    \/ ProgressStep
    \/ FaultStep
    \/ Cleanup

ReceiveSpec == Init /\ [][ReceiveNext]_vars

\* lines 162-176 as a function of the received bytes: long enough and validated
Accepted(buf, id, sq) ==
    /\ ~TooShort(Len(buf), get_ip_header_length(buf))
    /\ validate_icmp_response(IcmpHdrAt(buf, get_ip_header_length(buf)), id, sq)

\* two datagrams of equal length that agree on IHL, type, code, identifier and
\* sequence, as far as the bytes exist
AgreeOnHeader(a, b) ==
    /\ Len(a) = Len(b)
    /\ Ihl(a) = Ihl(b)
    /\ \A k \in {1, 2, 5, 6, 7, 8} :
            4 * Ihl(a) + k <= Len(a) => a[4 * Ihl(a) + k] = b[4 * Ihl(a) + k]

\* C19: the success value send_ping returns for a received datagram is the one
\* it returns for every datagram of equal length that agrees with it on IHL,
\* type, code, identifier and sequence, whatever their checksum fields and
\* payload bytes.
C19_ChecksumAndPayloadIgnored ==
    (fn = "queued" /\ pc = "returned" /\ Positive(received)) =>
        \A d \in VariedDatagrams :
            AgreeOnHeader(d.data, arg.data) =>
                (result.success <=> Accepted(d.data, identifier, sequence))

\* a reply whose checksum field is all ones, not the right checksum, and whose
\* payload is zero bytes is accepted
C19_Witness ==
    /\ fn = "queued" /\ pc = "returned" /\ result.success
    /\ Len(arg.data) = 42
    /\ <<arg.data[23], arg.data[24]>> = <<255, 255>>
    /\ RightChecksum(arg.data) # <<255, 255>>
    /\ arg.data[29] = 0

---------------------------------------------------------------------------
(* validate_icmp_response applied to ICMP headers *)

HdrTypes == {0, 3, 8}
HdrCodes == {0, 1}
HdrValues == {1, 256, 1234, 53764}
ExpectedValues == {1, 1234}

\* the eight bytes of an ICMP header on the wire (fields big-endian)
WireHeaderBytes(type, code, id, sq) ==
    <<type, code, 0, 0, id \div 256, id % 256, sq \div 256, sq % 256>>

ValidateInit ==
    /\ host \in Hosts
    /\ identifier = 0
    /\ PingInit
    /\ FtpInit
    /\ fn = "validate"
    /\ \E t \in HdrTypes, c \in HdrCodes, i \in HdrValues, q \in HdrValues,
          ei \in ExpectedValues, eq \in ExpectedValues :
            arg = [type |-> t, code |-> c, id |-> i, sequence |-> q,
                   expected_id |-> ei, expected_seq |-> eq]
    /\ ret = <<>>

Validate ==
    /\ fn = "validate"
    /\ ret' = <<validate_icmp_response(
                    IcmpHdrAt(WireHeaderBytes(arg.type, arg.code, arg.id,
                                              arg.sequence), 0),
                    arg.expected_id, arg.expected_seq)>>
    /\ fn' = "validated"
    /\ UNCHANGED <<host, pingVars, ftpVars, arg>>

ValidateNext == Validate

ValidateSpec == ValidateInit /\ [][ValidateNext]_vars

\* the verdict on the header of arg with one field replaced
Revalidate(t, c, i, q) ==
    validate_icmp_response(IcmpHdrAt(WireHeaderBytes(t, c, i, q), 0),
                           arg.expected_id, arg.expected_seq)

\* C9: validate_icmp_response is true exactly when type = 0, code = 0, the
\* big-endian identifier equals expected_id and the big-endian sequence equals
\* expected_seq; from an accepted header, changing any one of type, code,
\* identifier or sequence makes it false.
C9_ValidateIff ==
    fn = "validated" =>
        /\ ret[1] <=> (/\ arg.type = 0 /\ arg.code = 0
                       /\ arg.id = arg.expected_id
                       /\ arg.sequence = arg.expected_seq)
        /\ ret[1] =>
            /\ \A t \in HdrTypes \ {arg.type} :
                    ~Revalidate(t, arg.code, arg.id, arg.sequence)
            /\ \A c \in HdrCodes \ {arg.code} :
                    ~Revalidate(arg.type, c, arg.id, arg.sequence)
            /\ \A i \in HdrValues \ {arg.id} :
                    ~Revalidate(arg.type, arg.code, i, arg.sequence)
            /\ \A q \in HdrValues \ {arg.sequence} :
                    ~Revalidate(arg.type, arg.code, arg.id, q)

C9_Witness ==
    /\ fn = "validated" /\ ret = <<TRUE>>
    /\ arg.type = 0 /\ arg.code = 0 /\ arg.id = 1234 /\ arg.sequence = 1
    /\ arg.expected_id = 1234 /\ arg.expected_seq = 1

---------------------------------------------------------------------------
(* send_ping receiving its own Echo Request, looped back by the host *)

\* header lengths, in 32-bit words, of the IPv4 header before the looped-back
\* request: without options, with one word and with ten words of options
LoopIhls == {5, 6, 15}

\* an IPv4 header of ihl words: version 4 and the IHL in the first byte, a
\* TTL of 64 at offset 8
IpHeader(ihl) ==
    [i \in 1..(4 * ihl) |-> IF i = 1 THEN 64 + ihl ELSE IF i = 9 THEN 64 ELSE 0]

\* the request send_ping has sent (line 123) comes back on the raw socket
\* behind an IPv4 header
Loopback(ihl) ==
    /\ pc \in InFlight
    /\ Positive(sent)
    /\ fn = "none"
    /\ Len(queue) < MaxQueue
    /\ queue' = Append(queue, [src |-> "127.0.0.1",
                               data |-> IpHeader(ihl) \o packet])
    /\ everReadable' = Readable(pc, queue', everReadable)
    /\ fn' = "looped"
    /\ arg' = IpHeader(ihl) \o packet
    /\ UNCHANGED <<host, pc, calls, identifier, sequence, packet, sent, ready,
                   received, buffer, from, result, outcome, waited, sendtoCalls,
                   selectCalls, recvfromCalls, returns, validations,
                   callerVars, ret, ftpVars>>

LoopNext ==
    \/ \E sq \in Seqs : OnlyCall(sq)
    \/ ProgressStep
    \/ FaultStep
    \/ \E ihl \in LoopIhls : Loopback(ihl)
    \/ Cleanup

LoopSpec == Init /\ [][LoopNext]_vars

\* C25: when the datagram send_ping receives is its own Echo Request (the
\* bytes of create_icmp_echo_request for the current identifier and sequence
\* behind an IPv4 header), the call returns success = false: the datagram is
\* long enough and fails validation.
C25_OwnRequestRejected ==
    (fn = "looped" /\ pc = "returned" /\ Positive(received)) =>
        /\ SubSeq(arg, 4 * Ihl(arg) + 1, Len(arg))
                = create_icmp_echo_request(identifier, sequence,
                                           PingPayload(sequence))
        /\ WireType(arg, 4 * Ihl(arg)) = ICMP_ECHO
        /\ ~result.success
        /\ outcome = "invalid"

C25_Witness ==
    /\ fn = "looped" /\ pc = "returned" /\ received = <<42>>
    /\ validations = 1
    /\ identifier = 777 /\ sequence = 5
    /\ SubSeq(arg, 21, 28) = <<8, 0, arg[23], arg[24], 3, 9, 0, 5>>
    /\ ~result.success

---------------------------------------------------------------------------
(* send_ping on datagrams of every header length, at the length check *)

\* datagrams with every IHL and a length one byte short of, equal to and one
\* byte over the IHL words and an ICMP header
EdgeDatagrams ==
    {[src |-> a, data |-> DatagramBytes(64 + ihl, 4 * ihl + 8 + extra, h, 0)] :
        a \in Sources, ihl \in 0..15, extra \in {-1, 0, 1}, h \in WireHeaders}

EdgeNext ==
    \/ \E d \in EdgeDatagrams : Arrive(d)
    \/ \E sq \in Seqs : OnlyCall(sq)
    \/ ProgressStep
    \/ FaultStep
    \/ Cleanup

EdgeSpec == Init /\ [][EdgeNext]_vars

\* the offsets of the icmphdr fields validate_icmp_response reads (lines
\* 99-105): type, then code, then id, then sequence, as far as the tests go
HeaderReads(icmp_hdr, expected_id) ==
    {0} \cup (IF icmp_hdr.type # ICMP_ECHOREPLY THEN {}
              ELSE {1} \cup (IF icmp_hdr.code # 0 THEN {}
                             ELSE {4, 5} \cup
                                  (IF ntohs(icmp_hdr.id) # expected_id THEN {}
                                   ELSE {6, 7})))

\* the offsets of buffer that lines 162-188 read when recvfrom returned n
\* bytes: byte 0 for the header length, the ICMP header fields at
\* ip_header_len when the length check passes, byte 8 on the success path
BufferReads(buf, n, id, sq) ==
    LET ip_header_len == get_ip_header_length(buf)
    IN  {0} \cup
        (IF TooShort(n, ip_header_len) THEN {}
         ELSE {ip_header_len + k :
                    k \in HeaderReads(IcmpHdrAt(buf, ip_header_len), id)}
              \cup (IF validate_icmp_response(IcmpHdrAt(buf, ip_header_len),
                                              id, sq)
                    THEN {8} ELSE {}))

\* C26: every offset of buffer that send_ping reads after recvfrom is below
\* the number of bytes received, for every IHL 0..15 and every length: byte 0,
\* the ICMP header at 4*IHL .. 4*IHL+7 and the TTL byte at offset 8.
C26_ReadsWithinReceived ==
    pc = "process" =>
        \A off \in BufferReads(buffer, received[1], identifier, sequence) :
            off < received[1]

---------------------------------------------------------------------------
(* The FTP client of src/FTP/ftp_client.cpp: transfers, login, disconnect. *)
(* Texts are sequences of character codes.                                  *)

\* "ddd \r\n": a reply of a three-digit code and no text
ReplyText(code) == to_string(code) \o <<32, 13, 10>>

\* "227 (h1,h2,h3,h4,p1,p2)\r\n" for a sequence of numbers
PasvText(numbers) ==
    LET RECURSIVE Joined(_)
        Joined(k) ==
            IF k > Len(numbers) THEN <<>>
            ELSE (IF k > 1 THEN <<44>> ELSE <<>>)
                    \o to_string(numbers[k]) \o Joined(k + 1)
    IN  <<50, 50, 55, 32, 40>> \o Joined(1) \o <<41, 13, 10>>

\* the address a PASV reply gives (RFC 959): host h1.h2.h3.h4, port p1*256+p2
AddrOf(a) == [ip |-> <<a[1], a[2], a[3], a[4]>>, port |-> a[5] * 256 + a[6]]

\* response.substr(0, 3)
Substr3(response) == SubSeq(response, 1, Min(3, Len(response)))

\* std::string::find(ch): the first position (from 1), 0 for npos
Find(text, ch) ==
    IF \E i \in 1..Len(text) : text[i] = ch
    THEN CHOOSE i \in 1..Len(text) :
            text[i] = ch /\ \A j \in 1..(i - 1) : text[j] # ch
    ELSE 0

\* lines 149-151: while (std::getline(ss, item, ',')), the items of pasv_data
RECURSIVE Items(_)
Items(text) ==
    IF text = <<>> THEN <<>>
    ELSE IF Find(text, 44) = 0 THEN <<text>>
    ELSE <<SubSeq(text, 1, Find(text, 44) - 1)>>
            \o Items(SubSeq(text, Find(text, 44) + 1, Len(text)))

IsDigit(ch) == ch >= 48 /\ ch <= 57

\* the value of a run of digits
RECURSIVE DigitsValue(_, _)
DigitsValue(text, acc) ==
    IF text = <<>> \/ ~IsDigit(Head(text)) THEN acc
    ELSE DigitsValue(Tail(text), acc * 10 + (Head(text) - 48))

\* std::stoi: leading spaces and a sign are skipped, the digits that follow are
\* converted, the rest is ignored; <<>> when it throws std::invalid_argument
RECURSIVE stoi(_)
stoi(item) ==
    IF item = <<>> THEN <<>>
    ELSE IF Head(item) = 32 THEN stoi(Tail(item))
    ELSE IF Head(item) = 45
         THEN IF Len(item) > 1 /\ IsDigit(item[2])
              THEN <<0 - DigitsValue(Tail(item), 0)>> ELSE <<>>
    ELSE IF Head(item) = 43
         THEN IF Len(item) > 1 /\ IsDigit(item[2])
              THEN <<DigitsValue(Tail(item), 0)>> ELSE <<>>
    ELSE IF IsDigit(Head(item)) THEN <<DigitsValue(item, 0)>>
    ELSE <<>>

\* lines 143-146: response.substr(start + 1, end - start - 1); the unsigned
\* count is huge when ')' comes before '(' and the rest of the text is taken
PasvData(response) ==
    LET start == Find(response, 40)
        end   == Find(response, 41)
    IN  IF end > start THEN SubSeq(response, start + 1, end - 1)
        ELSE SubSeq(response, start + 1, Len(response))

\* lines 160-176: data_ip and data_port as connect receives them; inet_pton
\* leaves the zero address when data_ip is no dotted quad, htons takes the
\* port as a uint16_t
DataAddr(numbers) ==
    [ip   |-> IF \A k \in 1..4 : numbers[k] \in 0..255
              THEN <<numbers[1], numbers[2], numbers[3], numbers[4]>>
              ELSE <<0, 0, 0, 0>>,
     port |-> (numbers[5] * 256 + numbers[6]) % 65536]

\* lines 135-158: what set_passive_mode makes of the response to PASV:
\* "not227", "malformed", "throw" (std::stoi throws), "invalid", or "ok" with
\* the address to connect to
ParsePasv(response) ==
    IF Substr3(response) # <<50, 50, 55>>
    THEN [how |-> "not227", addr |-> NoAddr]
    ELSE IF Find(response, 40) = 0 \/ Find(response, 41) = 0
    THEN [how |-> "malformed", addr |-> NoAddr]
    ELSE LET items == Items(PasvData(response))
         IN  IF \E k \in 1..Len(items) : stoi(items[k]) = <<>>
             THEN [how |-> "throw", addr |-> NoAddr]
             ELSE IF Len(items) # 6
             THEN [how |-> "invalid", addr |-> NoAddr]
             ELSE [how |-> "ok",
                   addr |-> DataAddr([k \in 1..6 |-> stoi(items[k])[1]])]

\* the addresses the server listens on for data connections
PasvAddrs == {<<10, 0, 0, 1, 4, 1>>, <<10, 0, 0, 1, 19, 137>>}

\* the server's replies to PASV: 227 with an address, a refusal, and 227 with
\* no parentheses, with five numbers and with no number
PasvReplies ==
    {[code |-> 227, addr |-> AddrOf(a), text |-> PasvText(a)] : a \in PasvAddrs}
        \cup {[code |-> 425, addr |-> NoAddr, text |-> ReplyText(425)],
              [code |-> 227, addr |-> NoAddr, text |-> ReplyText(227)],
              [code |-> 227, addr |-> NoAddr,
               text |-> PasvText(<<10, 0, 0, 1, 4>>)],
              [code |-> 227, addr |-> NoAddr,
               text |-> <<50, 50, 55, 32, 40, 120, 41, 13, 10>>]}

\* the server's replies to LIST, RETR and STOR: a refusal, or 150 followed by
\* 226 when the transfer is complete
XferReplies == {<<ReplyText(550)>>, <<ReplyText(150), ReplyText(226)>>}

Transfers == {"LIST", "RETR", "STOR"}

\* lines 283-303, read_response: recv returns a reply and the loop ends when
\* the fourth character of what was read is a space
ResponseComplete(text) == Len(text) >= 4 /\ text[4] = 32

ResponseReady ==
    client.ctrlIn # <<>> /\ ResponseComplete(Head(client.ctrlIn))

\* connect() has returned true: the control connection is open and the
\* greeting was read; main waits for a command (line 360)
FtpConnected ==
    client = [control_socket |-> 3, data_socket |-> -1,
              passive_mode |-> FALSE, pc |-> "prompt", op |-> "none",
              opn |-> 0, cmds |-> <<>>, ctrlIn |-> <<>>, dataPeer |-> NoAddr,
              answer |-> [code |-> 0, addr |-> NoAddr],
              second |-> 0, login |-> "none", open |-> {3}, quits |-> 0,
              closeCalls |-> 0, badCloses |-> 0]

\* list / get / put: the operation starts with send_command("PASV") (line
\* 135); the server answers r
FtpBegin(kind, r) ==
    /\ client.pc = "prompt"
    /\ client.opn < MaxOps
    /\ client' = [client EXCEPT !.op = kind,
                                !.opn = @ + 1,
                                !.cmds = <<"PASV">>,
                                !.answer = [code |-> r.code, addr |-> r.addr],
                                !.second = 0,
                                !.login = "none",
                                !.ctrlIn = Append(@, r.text),
                                !.pc = "pasv_reply"]
    /\ UNCHANGED <<host, pingVars, fnVars>>

\* the operation returns to main's loop having read a response
FtpReturn(c) == [c EXCEPT !.pc = "prompt", !.ctrlIn = Tail(@)]

\* whether the operation goes on to its transfer command: the data socket
\* was made and connected, and for an upload the local file could be read
\* (lines 249-258)
SendTransfer(sockOk, connOk, fileOk) ==
    sockOk /\ connOk /\ (client.op # "STOR" \/ fileOk)

\* socket(): the lowest descriptor that is not open; 0, 1 and 2 are the
\* standard streams
NewFd(open) ==
    CHOOSE f \in 3..(3 + Cardinality(open)) :
        f \notin open /\ \A g \in 3..(f - 1) : g \in open

\* close(fd)
Close(c, fd) ==
    [c EXCEPT !.open = @ \ {fd},
              !.closeCalls = @ + 1,
              !.badCloses = IF fd \in c.open THEN @ ELSE @ + 1]

\* lines 171-190: data_socket = socket(...), whatever data_socket held, and
\* connect() for the data connection; a socket that cannot be connected is
\* closed
DataConnect(c, addr, sockOk, connOk) ==
    IF ~sockOk THEN [c EXCEPT !.data_socket = -1]
    ELSE IF connOk
    THEN [c EXCEPT !.data_socket = NewFd(c.open),
                   !.open = @ \cup {NewFd(c.open)},
                   !.dataPeer = addr,
                   !.passive_mode = TRUE]
    ELSE [c EXCEPT !.data_socket = -1, !.closeCalls = @ + 1]

\* lines 136-190 and the caller's next command: the response to PASV is read
\* and parsed, the data socket is made and connected, and the transfer
\* command is sent (lines 198, 220, 262); the server answers it with x
PasvResponse(sockOk, connOk, fileOk, x) ==
    /\ client.pc = "pasv_reply"
    /\ ResponseReady
    /\ LET parsed == ParsePasv(Head(client.ctrlIn))
       IN  CASE parsed.how \in {"not227", "malformed", "invalid"} ->
                    client' = FtpReturn(client)
             [] parsed.how = "throw" ->
                    client' = [client EXCEPT !.pc = "terminated",
                                             !.ctrlIn = Tail(@)]
             [] parsed.how = "ok" ->
                    LET c == DataConnect(client, parsed.addr, sockOk, connOk)
                    IN  IF SendTransfer(sockOk, connOk, fileOk)
                        THEN client' = [c EXCEPT !.cmds = Append(@, c.op),
                                                 !.ctrlIn = Tail(@) \o x,
                                                 !.pc = "xfer_reply"]
                        ELSE client' = FtpReturn(c)
    /\ UNCHANGED <<host, pingVars, fnVars>>

\* lines 199-207, 221-237, 263-271: the response to the transfer command;
\* after 150 the data are moved and the data socket is closed; a download
\* whose local file cannot be created returns before the final response
XferResponse(fileOk) ==
    /\ client.pc = "xfer_reply"
    /\ ResponseReady
    /\ IF Substr3(Head(client.ctrlIn)) # <<49, 53, 48>>
       THEN client' = FtpReturn(client)
       ELSE client' = [Close(client, client.data_socket) EXCEPT
                !.ctrlIn = Tail(@),
                !.data_socket = -1,
                !.pc = IF client.op = "RETR" /\ ~fileOk THEN "prompt"
                       ELSE "final_reply"]
    /\ UNCHANGED <<host, pingVars, fnVars>>

\* lines 210, 243, 274: read_response() for the final response
FinalResponse ==
    /\ client.pc = "final_reply"
    /\ ResponseReady
    /\ client' = FtpReturn(client)
    /\ UNCHANGED <<host, pingVars, fnVars>>

\* disconnect() that closes the descriptors and leaves them in control_socket
\* and data_socket
disconnectKeeping(c) ==
    LET c1 == IF c.control_socket >= 0
              THEN [Close(c, c.control_socket) EXCEPT
                        !.cmds = <<"QUIT">>,
                        !.quits = @ + 1,
                        !.ctrlIn = <<>>]
              ELSE c
    IN  IF c1.data_socket >= 0 THEN Close(c1, c1.data_socket) ELSE c1

\* disconnect(), lines 103-113: with an open control socket QUIT is sent, a
\* response is read and the socket is closed; an open data socket is closed
disconnect(c) ==
    LET c1 == IF c.control_socket >= 0
              THEN [Close(c, c.control_socket) EXCEPT
                        !.cmds = <<"QUIT">>,
                        !.quits = @ + 1,
                        !.ctrlIn = <<>>,
                        !.control_socket = -1]
              ELSE c
    IN  IF c1.data_socket >= 0
        THEN [Close(c1, c1.data_socket) EXCEPT !.data_socket = -1]
        ELSE c1

\* quit or exit (line 370), then client.disconnect() (line 417)
FtpQuit ==
    /\ client.pc = "prompt"
    /\ client' = [disconnect(client) EXCEPT !.pc = "exited"]
    /\ UNCHANGED <<host, pingVars, fnVars>>

\* main returns (line 420) and ~FTPClient() calls disconnect() again (lines
\* 57-59)
Destructor ==
    /\ client.pc = "exited"
    /\ client' = [disconnect(client) EXCEPT !.pc = "destroyed"]
    /\ UNCHANGED <<host, pingVars, fnVars>>

\* the server's replies to USER: the password is wanted, the user is refused,
\* or the user is logged in without a password
UserReplies == {331, 530, 230}

\* the server's replies to PASS
PassReplies == {230, 530}

\* user <username>, then login() (line 117): send_command("USER " + username);
\* the server answers with code u
FtpUser(u) ==
    /\ client.pc = "prompt"
    /\ client.opn < MaxOps
    /\ client' = [client EXCEPT !.op = "USER",
                                !.opn = @ + 1,
                                !.cmds = <<"USER">>,
                                !.answer = [code |-> u, addr |-> NoAddr],
                                !.second = 0,
                                !.login = "none",
                                !.ctrlIn = Append(@, ReplyText(u)),
                                !.pc = "user_reply"]
    /\ UNCHANGED <<host, pingVars, fnVars>>

\* lines 118-124: the response to USER is read; unless it starts with 331
\* login returns false, else send_command("PASS " + password), which the
\* server answers with code p
UserResponse(p) ==
    /\ client.pc = "user_reply"
    /\ ResponseReady
    /\ IF Substr3(Head(client.ctrlIn)) # <<51, 51, 49>>
       THEN client' = [FtpReturn(client) EXCEPT !.login = "false"]
       ELSE client' = [client EXCEPT !.cmds = Append(@, "PASS"),
                                     !.second = p,
                                     !.ctrlIn = Append(Tail(@), ReplyText(p)),
                                     !.pc = "pass_reply"]
    /\ UNCHANGED <<host, pingVars, fnVars>>

\* lines 125-131: the response to PASS is read; login returns true when it
\* starts with 230
PassResponse ==
    /\ client.pc = "pass_reply"
    /\ ResponseReady
    /\ client' = [FtpReturn(client) EXCEPT
            !.login = IF Substr3(Head(client.ctrlIn)) = <<50, 51, 48>>
                      THEN "true" ELSE "false"]
    /\ UNCHANGED <<host, pingVars, fnVars>>

FtpSpecInit ==
    /\ host \in Hosts
    /\ identifier = 0
    /\ PingInit
    /\ fn = "none" /\ arg = <<>> /\ ret = <<>>
    /\ FtpConnected

FtpNext ==
    \/ \E kind \in Transfers, r \in PasvReplies : FtpBegin(kind, r)
    \/ \E sockOk \in BOOLEAN, connOk \in BOOLEAN, fileOk \in BOOLEAN,
          x \in XferReplies : PasvResponse(sockOk, connOk, fileOk, x)
    \/ \E fileOk \in BOOLEAN : XferResponse(fileOk)
    \/ FinalResponse
    \/ \E u \in UserReplies : FtpUser(u)
    \/ \E p \in PassReplies : UserResponse(p)
    \/ PassResponse
    \/ FtpQuit
    \/ Destructor

FtpSpec == FtpSpecInit /\ [][FtpNext]_vars

\* C20: a LIST, RETR or STOR command is on the control connection only after
\* the PASV of the same operation was answered with a 227 reply and the data
\* socket was connected to the address that reply gives; with a failed PASV no
\* transfer command is sent.
C20_PassiveBeforeTransfer ==
    client.op \in Transfers /\ Len(client.cmds) = 2 =>
        /\ client.cmds[1] = "PASV" /\ client.cmds[2] \in Transfers
        /\ client.answer.code = 227
        /\ client.pc = "xfer_reply" =>
                /\ client.data_socket >= 0
                /\ client.dataPeer = client.answer.addr

\* C22: PASS is sent only after USER, and only when the server answered that
\* USER with a 331 reply; login returns true only when the server answered
\* the PASS with a 230 reply; with another reply to USER no password is sent.
C22_LoginOrdering ==
    client.op = "USER" =>
        /\ Len(client.cmds) > 1 =>
                /\ client.cmds = <<"USER", "PASS">>
                /\ client.answer.code = 331
        /\ client.login = "true" => client.second = 230

\* C23: every open descriptor is the control socket or the one data_socket
\* holds, so at most one data socket is open and socket() in
\* set_passive_mode never replaces a descriptor that is still open.
C23_DataSocketLifecycle ==
    /\ client.open \subseteq {client.control_socket, client.data_socket}
    /\ Cardinality(client.open \ {client.control_socket}) <= 1

\* C24: once disconnect has returned, control_socket and data_socket are -1;
\* the second call, from the destructor, sends no QUIT and closes nothing;
\* no close is ever made on a descriptor that is not open.
C24_DisconnectIdempotent ==
    [][/\ client'.badCloses = 0
       /\ client'.pc \in {"exited", "destroyed"} =>
            /\ client'.control_socket = -1
            /\ client'.data_socket = -1
       /\ client.pc = "exited" /\ client'.pc = "destroyed" =>
            /\ client'.quits = client.quits
            /\ client'.closeCalls = client.closeCalls
            /\ client'.open = client.open
            /\ client'.cmds = client.cmds]_vars

C24_Witness ==
    /\ client.pc = "destroyed"
    /\ client.quits = 1
    /\ client.opn = 1
    /\ client.op = "LIST"
    /\ client.closeCalls = 2
    /\ client.open = {}

---------------------------------------------------------------------------
(* read_response on the bytes of the control connection, lines 283-303 *)

\* char buffer[4096], line 284
ResponseBufferSize == 4096

\* a one-line reply with a text: "ddd ok\r\n"
TextReply(code) == to_string(code) \o <<32, 111, 107, 13, 10>>

\* a reply of two lines (RFC 959): "ddd-\r\nddd \r\n"
MultiLineReply(code) == to_string(code) \o <<45, 13, 10>> \o ReplyText(code)

\* the replies a server sends on the control connection
ControlReplies ==
    {ReplyText(226), TextReply(220), TextReply(150), MultiLineReply(230)}

\* what the server sends after the reply while read_response runs: nothing, or
\* the next reply (the 226 that follows a 150)
FollowingReplies == {<<>>, ReplyText(226)}

\* the server has sent arg.reply, then the rest of arg.wire, and when arg.eof
\* it has closed the connection after that; read_response starts with an
\* empty response (line 285)
ReadInit ==
    /\ host \in Hosts
    /\ identifier = 0
    /\ PingInit
    /\ FtpInit
    /\ fn = "reading"
    /\ \E r \in ControlReplies, f \in FollowingReplies, e \in BOOLEAN :
            arg = [reply |-> r, wire |-> r \o f, eof |-> e]
    /\ ret = <<>>

\* lines 288-299: recv returns n bytes, from one to all of the bytes that have
\* arrived and at most sizeof(buffer) - 1; they are appended to response, and
\* the loop ends when the fourth character of response is a space
Recv(n) ==
    /\ fn = "reading"
    /\ n >= 1 /\ n <= Min(Len(arg.wire), ResponseBufferSize - 1)
    /\ ret' = ret \o SubSeq(arg.wire, 1, n)
    /\ arg' = [arg EXCEPT !.wire = SubSeq(@, n + 1, Len(@))]
    /\ fn' = IF ResponseComplete(ret') THEN "returned" ELSE "reading"
    /\ UNCHANGED <<host, pingVars, ftpVars>>

\* lines 288-291: recv returns 0 when the server has closed the connection
\* and every byte was read; the loop ends
RecvEnd ==
    /\ fn = "reading"
    /\ arg.wire = <<>>
    /\ arg.eof
    /\ fn' = "closed"
    /\ UNCHANGED <<host, pingVars, ftpVars, arg, ret>>

ReadNext ==
    \/ \E n \in 1..Len(arg.wire) : Recv(n)
    \/ RecvEnd

ReadSpec == ReadInit /\ [][ReadNext]_vars

\* C21: read_response returns as soon as one complete reply has been received
\* and returns that reply, for one-line and multi-line replies and for every
\* way the bytes are split over recv calls: it is not still reading once the
\* whole reply was read (where it would wait for bytes the server does not
\* send), and what it returns is the reply.
C21_ReadResponseReturns ==
    /\ fn = "reading" => Len(ret) < Len(arg.reply)
    /\ fn = "returned" => ret = arg.reply

---------------------------------------------------------------------------
(* HTTPClient::request of src/HTTP/http_client.cpp, lines 83-115 *)

\* whether text begins with prefix
StartsWith(text, prefix) ==
    Len(text) >= Len(prefix) /\ SubSeq(text, 1, Len(prefix)) = prefix

\* text.substr(n)
Drop(text, n) == SubSeq(text, n + 1, Len(text))

\* the longest prefix of text made of digits
RECURSIVE DigitRun(_)
DigitRun(text) ==
    IF text = <<>> \/ ~IsDigit(Head(text)) THEN <<>>
    ELSE <<Head(text)>> \o DigitRun(Tail(text))

\* the longest prefix of text without ':' and '/': the group ([^:/]+)
RECURSIVE HostRun(_)
HostRun(text) ==
    IF text = <<>> \/ Head(text) \in {58, 47} THEN <<>>
    ELSE <<Head(text)>> \o HostRun(Tail(text))

\* "http://"
HttpScheme ==
    <<104, 116, 116, 112, 58, 47, 47>>

\* "https://"
HttpsScheme ==
    <<104, 116, 116, 112, 115, 58, 47, 47>>

\* URL::parse, lines 56-80, on a URL without '?' and '#': the regex
\* (https?)://([^:/]+)(?::(\d+))?(/[^?#]*)? must match the whole text; the
\* port is the number given, else 443 for https and 80 for http
UrlParse(url) ==
    LET scheme == IF StartsWith(url, HttpScheme) THEN Len(HttpScheme)
                  ELSE IF StartsWith(url, HttpsScheme) THEN Len(HttpsScheme)
                  ELSE 0
        name   == HostRun(Drop(url, scheme))
        after  == Drop(url, scheme + Len(name))
        colon  == after # <<>> /\ Head(after) = 58
        digits == IF colon THEN DigitRun(Tail(after)) ELSE <<>>
        rest   == IF colon THEN Drop(after, 1 + Len(digits)) ELSE after
    IN  IF \/ scheme = 0
           \/ name = <<>>
           \/ (colon /\ digits = <<>>)
           \/ (rest # <<>> /\ Head(rest) # 47)
        THEN [ok |-> FALSE, host |-> <<>>, port |-> 80]
        ELSE [ok |-> TRUE, host |-> name,
              port |-> IF digits # <<>> THEN DigitsValue(digits, 0)
                       ELSE IF scheme = Len(HttpsScheme) THEN 443 ELSE 80]

\* "http://h/"
UrlPlain ==
    <<104, 116, 116, 112, 58, 47, 47, 104, 47>>

\* "https://h:8/x"
UrlPort ==
    <<104, 116, 116, 112, 115, 58, 47, 47, 104, 58, 56, 47, 120>>

\* "https://h"
UrlNoPath ==
    <<104, 116, 116, 112, 115, 58, 47, 47, 104>>

\* "ftp://h/"
UrlFtp ==
    <<102, 116, 112, 58, 47, 47, 104, 47>>

\* "http:///x"
UrlNoHost ==
    <<104, 116, 116, 112, 58, 47, 47, 47, 120>>

\* "http://h:x/"
UrlBadPort ==
    <<104, 116, 116, 112, 58, 47, 47, 104, 58, 120, 47>>

\* the URLs given on the command line (line 382)
Urls == {UrlPlain, UrlPort, UrlNoPath, UrlFtp, UrlNoHost, UrlBadPort}

\* std::getline(stream, line, ch) until the stream ends
RECURSIVE Split(_, _)
Split(text, ch) ==
    IF text = <<>> THEN <<>>
    ELSE IF Find(text, ch) = 0 THEN <<text>>
    ELSE <<SubSeq(text, 1, Find(text, ch) - 1)>>
            \o Split(Drop(text, Find(text, ch)), ch)

\* \s of std::regex: space, tab, line feed, vertical tab, form feed, return
IsSpace(ch) == ch \in {32, 9, 10, 11, 12, 13}

RECURSIVE SkipSpace(_)
SkipSpace(text) ==
    IF text = <<>> \/ ~IsSpace(Head(text)) THEN text ELSE SkipSpace(Tail(text))

RECURSIVE SkipWord(_)
SkipWord(text) ==
    IF text = <<>> \/ IsSpace(Head(text)) THEN text ELSE SkipWord(Tail(text))

RECURSIVE DropSpaceAtEnd(_)
DropSpaceAtEnd(text) ==
    IF text = <<>> \/ ~IsSpace(text[Len(text)]) THEN text
    ELSE DropSpaceAtEnd(SubSeq(text, 1, Len(text) - 1))

\* std::regex_replace(text, std::regex("^\\s+|\\s+$"), ""), lines 260-261
Trim(text) == DropSpaceAtEnd(SkipSpace(text))

\* parse_status_line, lines 241-243: ss >> response.version >>
\* response.status_code; the number is 0 when either extraction fails
StatusCode(raw) ==
    LET line    == IF Split(raw, 10) = <<>> THEN <<>> ELSE Split(raw, 10)[1]
        version == SkipSpace(line)
        number  == SkipSpace(SkipWord(version))
    IN  IF version = <<>> \/ stoi(number) = <<>> THEN 0 ELSE stoi(number)[1]

\* "Content-Length"
ContentLengthKey ==
    <<67, 111, 110, 116, 101, 110, 116, 45, 76, 101, 110, 103, 116, 104>>

\* lines 224-226: the header lines, from the second line to the first line
\* that is "\r" or empty
RECURSIVE UntilBlank(_)
UntilBlank(lines) ==
    IF lines = <<>> \/ Head(lines) = <<13>> \/ Head(lines) = <<>> THEN <<>>
    ELSE <<Head(lines)>> \o UntilBlank(Tail(lines))

HeaderLines(raw) ==
    IF Split(raw, 10) = <<>> THEN <<>> ELSE UntilBlank(Tail(Split(raw, 10)))

\* parse_header_line, lines 253-269: std::stoul(value) throws
\* std::invalid_argument for a Content-Length that is no number
ParseThrows(raw) ==
    \E k \in 1..Len(HeaderLines(raw)) :
        LET line == HeaderLines(raw)[k]
            colon_pos == Find(line, 58)
        IN  /\ colon_pos # 0
            /\ Trim(SubSeq(line, 1, colon_pos - 1)) = ContentLengthKey
            /\ stoi(Trim(Drop(line, colon_pos))) = <<>>

\* "HTTP/1.1 200 OK\r\n\r\nhi"
ResponseOk ==
    <<72, 84, 84, 80, 47, 49, 46, 49, 32, 50, 48, 48, 32, 79, 75, 13, 10, 13,
      10, 104, 105>>

\* "HTTP/1.1 404 NF\r\nContent-Length: 0\r\n\r\n"
ResponseNotFound ==
    <<72, 84, 84, 80, 47, 49, 46, 49, 32, 52, 48, 52, 32, 78, 70, 13, 10, 67,
      111, 110, 116, 101, 110, 116, 45, 76, 101, 110, 103, 116, 104, 58, 32,
      48, 13, 10, 13, 10>>

\* "HTTP/1.1 200 OK\r\nContent-Length: x\r\n\r\n"
ResponseBadLength ==
    <<72, 84, 84, 80, 47, 49, 46, 49, 32, 50, 48, 48, 32, 79, 75, 13, 10, 67,
      111, 110, 116, 101, 110, 116, 45, 76, 101, 110, 103, 116, 104, 58, 32,
      120, 13, 10, 13, 10>>

\* "hello", no status line
ResponseNoStatus ==
    <<104, 101, 108, 108, 111>>

\* what the server sends before it closes the connection; nothing at all too
HttpWires ==
    {<<>>, ResponseOk, ResponseNotFound, ResponseBadLength, ResponseNoStatus}

\* HTTPResponse response (line 86): status_code(0); no socket yet
\*   sock         the descriptor request holds, -1 for none
\*   open         the descriptors that are open
\*   opened       number of sockets made
\*   closeCalls   number of close() calls
\*   badCloses    close() calls on a descriptor that is not open
\*   status_code  response.status_code
\*   raw          raw_response of receive_http_response
\*   path         the return statement taken
NewRequest ==
    [sock |-> -1, open |-> {}, opened |-> 0, closeCalls |-> 0, badCloses |-> 0,
     status_code |-> 0, raw |-> <<>>, path |-> "none"]

HttpInit ==
    /\ host \in Hosts
    /\ identifier = 0
    /\ PingInit
    /\ FtpInit
    /\ fn = "parse_url"
    /\ \E u \in Urls, w \in HttpWires : arg = [url |-> u, wire |-> w]
    /\ ret = NewRequest

\* lines 89-92: url.parse(url_str)
ParseUrl ==
    /\ fn = "parse_url"
    /\ IF UrlParse(arg.url).ok
       THEN fn' = "create_socket" /\ UNCHANGED ret
       ELSE fn' = "returned" /\ ret' = [ret EXCEPT !.path = "invalid_url"]
    /\ UNCHANGED <<host, pingVars, ftpVars, arg>>

\* create_socket, lines 118-151, and lines 95-98
CreateSocket(resolveOk, sockOk, connOk) ==
    /\ fn = "create_socket"
    /\ IF ~resolveOk
       THEN fn' = "returned" /\ ret' = [ret EXCEPT !.path = "no_host"]
       ELSE IF ~sockOk
       THEN fn' = "returned" /\ ret' = [ret EXCEPT !.path = "no_socket"]
       ELSE LET fd == NewFd(ret.open)
                made == [ret EXCEPT !.open = @ \cup {fd}, !.opened = @ + 1]
            IN  IF ~connOk
                THEN /\ fn' = "returned"
                     /\ ret' = [Close(made, fd) EXCEPT !.path = "connect_failed"]
                ELSE /\ fn' = "send"
                     /\ ret' = [made EXCEPT !.sock = fd]
    /\ UNCHANGED <<host, pingVars, ftpVars, arg>>

\* the socket is not closed when send fails
SendRequestNoClose(ok) ==
    /\ fn = "send"
    /\ IF ok
       THEN fn' = "recv" /\ UNCHANGED ret
       ELSE fn' = "returned" /\ ret' = [ret EXCEPT !.path = "send_failed"]
    /\ UNCHANGED <<host, pingVars, ftpVars, arg>>

\* lines 101-108: send, and close(sock) when it fails
SendRequest(ok) ==
    /\ fn = "send"
    /\ IF ok
       THEN fn' = "recv" /\ UNCHANGED ret
       ELSE /\ fn' = "returned"
            /\ ret' = [Close(ret, ret.sock) EXCEPT !.path = "send_failed"]
    /\ UNCHANGED <<host, pingVars, ftpVars, arg>>

\* lines 194-200: recv returns n bytes of what the server has sent, which
\* are appended to raw_response
HttpRecv(n) ==
    /\ fn = "recv"
    /\ n >= 1 /\ n <= Min(Len(arg.wire), ResponseBufferSize - 1)
    /\ ret' = [ret EXCEPT !.raw = @ \o SubSeq(arg.wire, 1, n)]
    /\ arg' = [arg EXCEPT !.wire = Drop(@, n)]
    /\ UNCHANGED <<host, pingVars, ftpVars, fn>>

\* lines 195-197, 203-211 and 111-114: recv returns 0 or -1 (the connection
\* is closed, or five seconds passed without data); nothing received is
\* returned as it is, else the response is parsed; close(sock) follows unless
\* parsing has thrown
HttpRecvEnd ==
    /\ fn = "recv"
    /\ IF ret.raw = <<>>
       THEN /\ fn' = "returned"
            /\ ret' = [Close(ret, ret.sock) EXCEPT !.path = "empty"]
       ELSE IF ParseThrows(ret.raw)
       THEN /\ fn' = "terminated"
            /\ ret' = [ret EXCEPT !.path = "exception"]
       ELSE /\ fn' = "returned"
            /\ ret' = [Close(ret, ret.sock) EXCEPT
                            !.status_code = StatusCode(ret.raw),
                            !.path = "parsed"]
    /\ UNCHANGED <<host, pingVars, ftpVars, arg>>

HttpNext ==
    \/ ParseUrl
    \/ \E resolveOk \in BOOLEAN, sockOk \in BOOLEAN, connOk \in BOOLEAN :
            CreateSocket(resolveOk, sockOk, connOk)
    \/ \E ok \in BOOLEAN : SendRequest(ok)
    \/ \E n \in 1..Len(arg.wire) : HttpRecv(n)
    \/ HttpRecvEnd

HttpSpec == HttpInit /\ [][HttpNext]_vars

\* the return statements of request on which no response was parsed
FailurePaths ==
    {"invalid_url", "no_host", "no_socket", "connect_failed", "send_failed",
     "empty"}

====
